---- MODULE Spec2Model ----
(***************************************************************************)
(* Model of the appointment engine of massage_bot: slot listing, booking   *)
(* commit, reservation status changes, admin cancellation, waitlist        *)
(* promotion and the booking of a notified waitlist entry.                 *)
(*                                                                         *)
(* Clock-time strings ("HH:MM") are sequences of character codes: the      *)
(* digits are 0..9 and ':' is Colon, which sorts after every digit as it   *)
(* does in JavaScript's string comparison.                                 *)
(*                                                                         *)
(* Calendar dates are day numbers: a date-only string names one day in     *)
(* every handler, as it does when the server's clock is in UTC.            *)
(***************************************************************************)
EXTENDS Integers, Sequences, FiniteSets, Bags, TLC

\* null, for values that are strings otherwise
Null == "null"

\* null and a present value, for values that are numbers or rows otherwise
None == <<>>
Some(x) == <<x>>

\* ':' in a clock-time string; '9' < ':' in UTF-16 order.
Colon == 10

(***************************************************************************)
(* Strings and clock times                                                 *)
(***************************************************************************)

\* JavaScript  a < b  on strings: lexicographic on code units.
RECURSIVE StrLess(_, _)
StrLess(a, b) ==
    IF b = <<>> THEN FALSE
    ELSE IF a = <<>> THEN TRUE
    ELSE IF a[1] # b[1] THEN a[1] < b[1]
    ELSE StrLess(Tail(a), Tail(b))

\* JavaScript  a >= b  on strings.
StrGeq(a, b) == ~StrLess(a, b)

\* Number(s) for a string of decimal digits (Number("") is 0).
RECURSIVE Number(_)
Number(s) ==
    IF s = <<>> THEN 0
    ELSE Number(SubSeq(s, 1, Len(s) - 1)) * 10 + s[Len(s)]

\* n.toString() for n >= 0.
RECURSIVE NumToString(_)
NumToString(n) == IF n < 10 THEN <<n>> ELSE NumToString(n \div 10) \o <<n % 10>>

\* s.padStart(2, '0')
PadStart2(s) == IF Len(s) < 2 THEN <<0>> \o s ELSE s

\* time.split(':'): the parts before and after the (single) colon.
ColonAt(time) == CHOOSE i \in 1..Len(time) : time[i] = Colon
HourPart(time) == SubSeq(time, 1, ColonAt(time) - 1)
MinutePart(time) == SubSeq(time, ColonAt(time) + 1, Len(time))

minutesToTime(minutes) ==
    PadStart2(NumToString(minutes \div 60)) \o <<Colon>> \o PadStart2(NumToString(minutes % 60))

timeToMinutes(time) == Number(HourPart(time)) * 60 + Number(MinutePart(time))

calculateEndTime(startTime, durationMinutes) ==
    minutesToTime(timeToMinutes(startTime) + durationMinutes)

\* /^([01]?\d|2[0-3]):([0-5]\d)$/
ValidTimeString(time) ==
    /\ Cardinality({i \in 1..Len(time) : time[i] = Colon}) = 1
    /\ Len(HourPart(time)) \in {1, 2}
    /\ Len(MinutePart(time)) = 2
    /\ Number(HourPart(time)) <= 23
    /\ MinutePart(time)[1] <= 5

\* A clock time written with a two-digit hour, and with the hour as typed.
Padded(h, m) == PadStart2(NumToString(h)) \o <<Colon>> \o PadStart2(NumToString(m))
Unpadded(h, m) == NumToString(h) \o <<Colon>> \o PadStart2(NumToString(m))

(***************************************************************************)
(* Catalogue: the rows the handlers only read                              *)
(***************************************************************************)

Users == {"u1", "u2"}
Masters == {"m1", "m2"}

\* master rows with isActive = true
ActiveMasters == {"m1"}

Services == {"s1", "s2", "s3"}

\* serviceDuration rows
ServiceDuration ==
    [d \in {"d1", "d2", "d3", "d4", "d5"} |->
        CASE d = "d1" -> [serviceId |-> "s1", durationMinutes |-> 30, basePrice |-> 500, isActive |-> TRUE]
          [] d = "d2" -> [serviceId |-> "s1", durationMinutes |-> 60, basePrice |-> 900, isActive |-> TRUE]
          [] d = "d3" -> [serviceId |-> "s2", durationMinutes |-> 30, basePrice |-> 600, isActive |-> TRUE]
          [] d = "d4" -> [serviceId |-> "s2", durationMinutes |-> 60, basePrice |-> 1000, isActive |-> FALSE]
          [] d = "d5" -> [serviceId |-> "s3", durationMinutes |-> 30, basePrice |-> 400, isActive |-> TRUE]]

\* masterService rows: (masterId, serviceId) -> priceModifier
MasterService ==
    [ms \in {<<"m1", "s1">>, <<"m1", "s2">>, <<"m2", "s1">>} |->
        CASE ms = <<"m1", "s1">> -> 100
          [] ms = <<"m1", "s2">> -> 0 - 100
          [] ms = <<"m2", "s1">> -> 0]

\* promoCode rows by code; currentUses is the variable promoUses. The rows are ones
\* promoCodeCreateSchema accepts: discountValue is any positive number, for a percent
\* as for a fixed amount. The prices are multiples of 100 and the values whole, so
\* that a percent discount is a whole number.
PromoCode ==
    [c \in {"SAVE20", "FIX300", "FIX2000", "PCT150", "OFF", "OLD", "SOON", "ONCE", "MIN2000"} |->
        CASE c = "SAVE20" -> [id |-> "pr1", discountType |-> "percent", discountValue |-> 20,
                              isActive |-> TRUE, validFrom |-> 0, validUntil |-> 100,
                              maxUses |-> None, minOrderAmount |-> Some(500)]
          [] c = "FIX300" -> [id |-> "pr2", discountType |-> "fixed", discountValue |-> 300,
                              isActive |-> TRUE, validFrom |-> 0, validUntil |-> 100,
                              maxUses |-> Some(2), minOrderAmount |-> None]
          [] c = "FIX2000" -> [id |-> "pr3", discountType |-> "fixed", discountValue |-> 2000,
                               isActive |-> TRUE, validFrom |-> 0, validUntil |-> 100,
                               maxUses |-> None, minOrderAmount |-> None]
          [] c = "PCT150" -> [id |-> "pr4", discountType |-> "percent", discountValue |-> 150,
                              isActive |-> TRUE, validFrom |-> 0, validUntil |-> 100,
                              maxUses |-> None, minOrderAmount |-> None]
          [] c = "OFF" -> [id |-> "pr5", discountType |-> "fixed", discountValue |-> 100,
                           isActive |-> FALSE, validFrom |-> 0, validUntil |-> 100,
                           maxUses |-> None, minOrderAmount |-> None]
          [] c = "OLD" -> [id |-> "pr6", discountType |-> "fixed", discountValue |-> 100,
                           isActive |-> TRUE, validFrom |-> 0, validUntil |-> 0,
                           maxUses |-> None, minOrderAmount |-> None]
          [] c = "SOON" -> [id |-> "pr7", discountType |-> "fixed", discountValue |-> 100,
                            isActive |-> TRUE, validFrom |-> 50, validUntil |-> 100,
                            maxUses |-> None, minOrderAmount |-> None]
          [] c = "ONCE" -> [id |-> "pr8", discountType |-> "percent", discountValue |-> 50,
                            isActive |-> TRUE, validFrom |-> 0, validUntil |-> 100,
                            maxUses |-> Some(1), minOrderAmount |-> None]
          [] c = "MIN2000" -> [id |-> "pr9", discountType |-> "fixed", discountValue |-> 100,
                               isActive |-> TRUE, validFrom |-> 0, validUntil |-> 100,
                               maxUses |-> None, minOrderAmount |-> Some(2000)]]

PromoIds == {PromoCode[c].id : c \in DOMAIN PromoCode}

\* masterSchedule rows: (masterId, workDate) -> working hours
MasterSchedule ==
    [md \in {<<"m1", 2>>, <<"m1", 3>>, <<"m1", 4>>, <<"m2", 2>>} |->
        CASE md = <<"m1", 2>> -> [startTime |-> Padded(9, 0), endTime |-> Padded(11, 0), isDayOff |-> FALSE]
          [] md = <<"m1", 3>> -> [startTime |-> Padded(9, 0), endTime |-> Padded(11, 0), isDayOff |-> TRUE]
          [] md = <<"m1", 4>> -> [startTime |-> Padded(9, 0), endTime |-> Padded(18, 0), isDayOff |-> FALSE]
          [] md = <<"m2", 2>> -> [startTime |-> Padded(10, 10), endTime |-> Padded(12, 0), isDayOff |-> FALSE]]

Statuses ==
    {"pending_confirmation", "confirmed", "deposit_pending", "deposit_paid", "in_progress",
     "completed", "cancelled_by_client", "cancelled_by_admin", "no_show"}

\* status: { notIn: ['cancelled_by_client', 'cancelled_by_admin'] }
CancelledStatuses == {"cancelled_by_client", "cancelled_by_admin"}

(***************************************************************************)
(* State                                                                   *)
(***************************************************************************)

VARIABLES
    bookings,       \* booking rows with their items, in creation order; the id is the index
    stamps,         \* loyaltyStamp rows
    promoUses,      \* promoCode.currentUses by promo id
    loyalty,        \* the active loyaltySettings row, or None
    waitlist,       \* waitlist rows by id
    now,            \* the clock that stamps createdAt
    tasks,          \* checkWaitlistAndNotify calls started and not yet run (a bag)
    notifications,  \* notification rows written by sendNotification
    dispatches,     \* sendNotification and scheduleNotification calls that POST /api/bookings
                    \* started without awaiting them and that have not yet run (a bag)
    pc,             \* per request handler: the await it is suspended at
    req,            \* per request handler: the request being served
    loc,            \* per request handler: its local variables
    reply           \* the last response sent

vars ==
    <<bookings, stamps, promoUses, loyalty, waitlist, now, tasks, notifications, dispatches,
      pc, req, loc, reply>>

Procs == {"h1", "h2"}

NoReq ==
    [userId |-> Null, masterId |-> Null, bookingDate |-> 0, startTime |-> <<>>,
     serviceDurations |-> <<>>, promoCode |-> Null, entryId |-> Null]

NoLoc ==
    [endTime |-> <<>>, totalPrice |-> 0, items |-> <<>>, promoCodeId |-> Null,
     discountAmount |-> 0, loyaltySettings |-> None, userStamps |-> 0, bookingId |-> 0]

InitWith(loyaltySettings) ==
    /\ bookings = <<>>
    /\ stamps = {}
    /\ promoUses = [p \in PromoIds |-> 0]
    /\ loyalty = loyaltySettings
    /\ waitlist = <<>>
    /\ now = 1
    /\ tasks = EmptyBag
    /\ notifications = <<>>
    /\ dispatches = EmptyBag
    /\ pc = [p \in Procs |-> "idle"]
    /\ req = [p \in Procs |-> NoReq]
    /\ loc = [p \in Procs |-> NoLoc]
    /\ reply = [op |-> "none", code |-> "none"]

Init == InitWith(None)

Respond(op, code) == reply' = [op |-> op, code |-> code]

(***************************************************************************)
(* Conflict check and slot listing                                         *)
(***************************************************************************)

\* Variant of the busy statuses that lets a finished reservation go.
IsBlockingUnfinished(status) ==
    status \notin {"cancelled_by_client", "cancelled_by_admin", "completed", "no_show"}

IsBlocking(status) == status \notin CancelledStatuses

\* booking.findMany({ masterId, bookingDate, status: { notIn: [cancelled...] } })
existingBookings(masterId, bookingDate) ==
    {i \in DOMAIN bookings :
        /\ bookings[i].masterId = masterId
        /\ bookings[i].bookingDate = bookingDate
        /\ IsBlocking(bookings[i].status)}

\* Variant of the commit test on closed intervals.
CommitOverlapsClosed(startTime, endTime, booking) ==
    /\ timeToMinutes(startTime) <= timeToMinutes(booking.endTime)
    /\ timeToMinutes(endTime) >= timeToMinutes(booking.startTime)

\* the callback of existingBookings.some(...) in POST /api/bookings
CommitOverlaps(startTime, endTime, booking) ==
    LET bookingStart == timeToMinutes(booking.startTime)
        bookingEnd == timeToMinutes(booking.endTime)
        newStart == timeToMinutes(startTime)
        newEnd == timeToMinutes(endTime)
    IN  newStart < bookingEnd /\ newEnd > bookingStart

hasConflict(startTime, endTime, existing) ==
    \E i \in existing : CommitOverlaps(startTime, endTime, bookings[i])

\* Variant of the listing test with the buffer taken off the busy interval instead of
\* added to it.
SlotOverlapsNarrowed(currentMinutes, durationMinutes, bufferMinutes, booking) ==
    LET bookingStart == timeToMinutes(booking.startTime)
        bookingEnd == timeToMinutes(booking.endTime)
    IN  /\ currentMinutes < bookingEnd - bufferMinutes
        /\ currentMinutes + durationMinutes > bookingStart + bufferMinutes

\* the callback of existingBookings.some(...) in generateTimeSlots
SlotOverlaps(currentMinutes, durationMinutes, bufferMinutes, booking) ==
    LET bookingStart == timeToMinutes(booking.startTime)
        bookingEnd == timeToMinutes(booking.endTime)
        slotStartMin == currentMinutes
        slotEndMin == currentMinutes + durationMinutes
    IN  slotStartMin < bookingEnd + bufferMinutes /\ slotEndMin > bookingStart - bufferMinutes

\* Variant of the loop that stops before a slot that ends exactly at the closing time.
RECURSIVE SlotsFromStrict(_, _, _, _, _)
SlotsFromStrict(currentMinutes, endMinutes, durationMinutes, bufferMinutes, existing) ==
    IF currentMinutes + durationMinutes < endMinutes
    THEN (IF \E i \in existing :
                SlotOverlaps(currentMinutes, durationMinutes, bufferMinutes, bookings[i])
          THEN <<>>
          ELSE <<minutesToTime(currentMinutes)>>)
         \o SlotsFromStrict(currentMinutes + 15, endMinutes, durationMinutes, bufferMinutes, existing)
    ELSE <<>>

\* the while loop of generateTimeSlots, from currentMinutes on
RECURSIVE SlotsFrom(_, _, _, _, _)
SlotsFrom(currentMinutes, endMinutes, durationMinutes, bufferMinutes, existing) ==
    IF currentMinutes + durationMinutes <= endMinutes
    THEN (IF \E i \in existing :
                SlotOverlaps(currentMinutes, durationMinutes, bufferMinutes, bookings[i])
          THEN <<>>
          ELSE <<minutesToTime(currentMinutes)>>)
         \o SlotsFrom(currentMinutes + 15, endMinutes, durationMinutes, bufferMinutes, existing)
    ELSE <<>>

generateTimeSlots(startTime, endTime, durationMinutes, bufferMinutes, existing) ==
    SlotsFrom(timeToMinutes(startTime), timeToMinutes(endTime),
              durationMinutes, bufferMinutes, existing)

\* Variant of the listing that does not look at isDayOff.
ListSlotsOnDayOff(masterId, date, durationMinutes) ==
    IF <<masterId, date>> \notin DOMAIN MasterSchedule
    THEN <<>>
    ELSE generateTimeSlots(MasterSchedule[<<masterId, date>>].startTime,
                           MasterSchedule[<<masterId, date>>].endTime,
                           durationMinutes, 15, existingBookings(masterId, date))

\* GET /api/bookings/slots
ListSlots(masterId, date, durationMinutes) ==
    IF <<masterId, date>> \notin DOMAIN MasterSchedule \/ MasterSchedule[<<masterId, date>>].isDayOff
    THEN <<>>
    ELSE generateTimeSlots(MasterSchedule[<<masterId, date>>].startTime,
                           MasterSchedule[<<masterId, date>>].endTime,
                           durationMinutes, 15, existingBookings(masterId, date))

\* GET /api/bookings/slots as a request: the reply carries the slots
GetSlots(masterId, date, durationMinutes) ==
    /\ reply' = [op |-> "slots", code |-> "OK",
                 masterId |-> masterId, date |-> date, durationMinutes |-> durationMinutes,
                 slots |-> ListSlots(masterId, date, durationMinutes)]
    /\ UNCHANGED <<dispatches, bookings, stamps, promoUses, loyalty, waitlist, now, tasks, notifications,
                   pc, req, loc>>

(***************************************************************************)
(* POST /api/bookings: the booking commit, one action per await that reads *)
(* or writes rows other handlers write                                     *)
(***************************************************************************)
\* Variant of the tier lookup that also finds a tier that is not active.
FindAnyDuration(durationId) ==
    IF durationId \in DOMAIN ServiceDuration
    THEN Some(ServiceDuration[durationId])
    ELSE None

\* serviceDuration.findUnique({ id, isActive: true })
FindActiveDuration(durationId) ==
    IF durationId \in DOMAIN ServiceDuration /\ ServiceDuration[durationId].isActive
    THEN Some(ServiceDuration[durationId])
    ELSE None

\* the for loop over serviceDurations: the code of the first item that fails, or "OK"
RECURSIVE ItemsError(_, _)
ItemsError(masterId, serviceDurations) ==
    IF serviceDurations = <<>> THEN "OK"
    ELSE LET sd == Head(serviceDurations)
             duration == FindActiveDuration(sd.durationId)
         IN  IF duration = None THEN "INVALID_SERVICE"
             ELSE IF duration[1].serviceId # sd.serviceId THEN "INVALID_SERVICE"
             ELSE IF <<masterId, sd.serviceId>> \notin DOMAIN MasterService
                  THEN "MASTER_SERVICE_NOT_AVAILABLE"
             ELSE ItemsError(masterId, Tail(serviceDurations))

RECURSIVE SumDurations(_)
SumDurations(serviceDurations) ==
    IF serviceDurations = <<>> THEN 0
    ELSE ServiceDuration[Head(serviceDurations).durationId].durationMinutes
         + SumDurations(Tail(serviceDurations))

\* bookingItems, with the sortOrder the create gives them
BookingItems(masterId, serviceDurations) ==
    [i \in 1..Len(serviceDurations) |->
        [serviceId |-> serviceDurations[i].serviceId,
         durationId |-> serviceDurations[i].durationId,
         price |-> ServiceDuration[serviceDurations[i].durationId].basePrice
                   + MasterService[<<masterId, serviceDurations[i].serviceId>>],
         sortOrder |-> i - 1]]

RECURSIVE SumPrices(_)
SumPrices(items) == IF items = <<>> THEN 0 ELSE Head(items).price + SumPrices(Tail(items))

\* The error POST /api/bookings answers before it reads the promo code, or "OK"
CommitBeginCode(r) ==
    IF r.masterId \notin ActiveMasters THEN "NOT_FOUND"
    ELSE IF ItemsError(r.masterId, r.serviceDurations) # "OK"
         THEN ItemsError(r.masterId, r.serviceDurations)
    ELSE IF hasConflict(r.startTime,
                        calculateEndTime(r.startTime, SumDurations(r.serviceDurations)),
                        existingBookings(r.masterId, r.bookingDate))
         THEN "SLOT_NOT_AVAILABLE"
    ELSE "OK"

\* validation, end time and the slot availability check, up to the 409
CommitBegin(p, r) ==
    /\ pc[p] = "idle"
    /\ LET endTime == calculateEndTime(r.startTime, SumDurations(r.serviceDurations))
           items == BookingItems(r.masterId, r.serviceDurations)
       IN  IF CommitBeginCode(r) # "OK"
           THEN Respond("commit", CommitBeginCode(r)) /\ UNCHANGED <<pc, req, loc>>
           ELSE /\ pc' = [pc EXCEPT ![p] = "promo"]
                /\ req' = [req EXCEPT ![p] = r]
                /\ loc' = [loc EXCEPT ![p] = [NoLoc EXCEPT !.endTime = endTime,
                                                           !.items = items,
                                                           !.totalPrice = SumPrices(items)]]
                /\ UNCHANGED reply
    /\ UNCHANGED <<dispatches, bookings, stamps, promoUses, loyalty, waitlist, now, tasks, notifications>>

\* discountAmount of a promo that applies
DiscountAmount(promo, totalPrice) ==
    IF promo.discountType = "percent"
    THEN (totalPrice * promo.discountValue) \div 100
    ELSE IF promo.discountValue < totalPrice THEN promo.discountValue ELSE totalPrice

\* Variant of the validity tests without the test of the uses left.
CommitPromoUnlimited(p) ==
    /\ pc[p] = "promo"
    /\ LET code == req[p].promoCode
           totalPrice == loc[p].totalPrice
           found == code # Null /\ code \in DOMAIN PromoCode
           promo == PromoCode[code]
           applies ==
               /\ found
               /\ promo.isActive
               /\ now >= promo.validFrom /\ now <= promo.validUntil
               /\ (promo.minOrderAmount = None \/ totalPrice >= promo.minOrderAmount[1])
       IN  loc' = [loc EXCEPT ![p].promoCodeId = IF applies THEN promo.id ELSE Null,
                              ![p].discountAmount =
                                  IF applies THEN DiscountAmount(promo, totalPrice) ELSE 0]
    /\ pc' = [pc EXCEPT ![p] = "loyalty"]
    /\ UNCHANGED <<dispatches, bookings, stamps, promoUses, loyalty, waitlist, now, tasks, notifications,
                   req, reply>>

\* promoCode.findUnique and the validity tests
CommitPromo(p) ==
    /\ pc[p] = "promo"
    /\ LET code == req[p].promoCode
           totalPrice == loc[p].totalPrice
           found == code # Null /\ code \in DOMAIN PromoCode
           promo == PromoCode[code]
           applies ==
               /\ found
               /\ promo.isActive
               /\ now >= promo.validFrom /\ now <= promo.validUntil
               /\ (promo.maxUses = None \/ promoUses[promo.id] < promo.maxUses[1])
               /\ (promo.minOrderAmount = None \/ totalPrice >= promo.minOrderAmount[1])
       IN  loc' = [loc EXCEPT ![p].promoCodeId = IF applies THEN promo.id ELSE Null,
                              ![p].discountAmount =
                                  IF applies THEN DiscountAmount(promo, totalPrice) ELSE 0]
    /\ pc' = [pc EXCEPT ![p] = "loyalty"]
    /\ UNCHANGED <<dispatches, bookings, stamps, promoUses, loyalty, waitlist, now, tasks, notifications,
                   req, reply>>

\* loyaltySettings.findFirst({ isActive: true }) and loyaltyStamp.count({ userId, isReward: false })
CommitLoyalty(p) ==
    /\ pc[p] = "loyalty"
    /\ loc' = [loc EXCEPT ![p].loyaltySettings = loyalty,
                          ![p].userStamps =
                              Cardinality({s \in stamps : s.userId = req[p].userId /\ ~s.isReward})]
    /\ pc' = [pc EXCEPT ![p] = "tx"]
    /\ UNCHANGED <<dispatches, bookings, stamps, promoUses, loyalty, waitlist, now, tasks, notifications,
                   req, reply>>

\* tx.booking.create with its items
NewBooking(p) ==
    [userId |-> req[p].userId,
     masterId |-> req[p].masterId,
     bookingDate |-> req[p].bookingDate,
     startTime |-> req[p].startTime,
     endTime |-> loc[p].endTime,
     status |-> "pending_confirmation",
     totalPrice |-> loc[p].totalPrice - loc[p].discountAmount,
     discountAmount |-> loc[p].discountAmount,
     promoCodeId |-> loc[p].promoCodeId,
     cancelReason |-> Null,
     adminNotes |-> None,
     items |-> loc[p].items]

\* tx.loyaltyStamp.create
NewStamp(p, bookingId) ==
    LET nextStampNumber == loc[p].userStamps + 1
        stampsForReward == loc[p].loyaltySettings[1].stampsForReward
    IN  [userId |-> req[p].userId,
         bookingId |-> bookingId,
         stampNumber |-> nextStampNumber,
         isReward |-> stampsForReward > 0 /\ nextStampNumber % stampsForReward = 0]

\* The writes of the transaction callback in program order: "booking", then "stamp"
\* and "promo" inside  if (loyaltySettings).
TxWrites(p) ==
    <<"booking">>
    \o (IF loc[p].loyaltySettings # None
        THEN <<"stamp">> \o (IF loc[p].promoCodeId # Null THEN <<"promo">> ELSE <<>>)
        ELSE <<>>)

\* The rows after the first n writes of the callback.
AfterWrites(p, n) ==
    LET writes == SubSeq(TxWrites(p), 1, n)
        did(w) == \E i \in 1..Len(writes) : writes[i] = w
        bookingId == Len(bookings) + 1
    IN  [bookings |-> IF did("booking") THEN Append(bookings, NewBooking(p)) ELSE bookings,
         stamps |-> IF did("stamp") THEN stamps \cup {NewStamp(p, bookingId)} ELSE stamps,
         promoUses |-> IF did("promo")
                       THEN [promoUses EXCEPT ![loc[p].promoCodeId] = @ + 1]
                       ELSE promoUses]

\* prisma.$transaction(callback): the callback's writes are kept when it returns and
\* undone when a statement of it throws.
Transaction(before, after, threw) == IF threw THEN before ELSE after
\* The instants of the clock and of a reservation's start, in minutes; a calendar
\* date is the first minute of its day.
MinutesPerDay == 1440
NowInstant == now * MinutesPerDay
BookingDateTime(bookingDate, startTime) == bookingDate * MinutesPerDay + timeToMinutes(startTime)
addHours(instant, hours) == instant + hours * 60

\* Variant of the notification run in which a message that does not go out undoes
\* the reservation it is about.
NotificationRunRollingBack(dispatch, outcome) ==
    /\ BagIn(dispatch, dispatches)
    /\ outcome \in (IF dispatch.call = "sendNotification"
                    THEN {"sent", "failed", "none"} ELSE {"pending", "none"})
    /\ dispatches' = dispatches (-) SetToBag({dispatch})
    /\ notifications' = notifications
    /\ bookings' = IF outcome \in {"failed", "none"}
                   THEN SubSeq(bookings, 1, dispatch.bookingId - 1) ELSE bookings
    /\ UNCHANGED <<stamps, promoUses, loyalty, waitlist, now, tasks, pc, req, loc, reply>>

\* The calls POST /api/bookings starts after its transaction and does not await:
\* sendNotification('booking_created') and a scheduleNotification for each reminder
\* whose time is still ahead.
PostCommitDispatches(p, bookingId) ==
    LET bookingDateTime == BookingDateTime(req[p].bookingDate, req[p].startTime)
        call(name, type) ==
            [call |-> name, type |-> type, userId |-> req[p].userId, bookingId |-> bookingId]
    IN  {call("sendNotification", "booking_created")}
        \cup (IF addHours(bookingDateTime, -24) > NowInstant
              THEN {call("scheduleNotification", "reminder_24h")} ELSE {})
        \cup (IF addHours(bookingDateTime, -2) > NowInstant
              THEN {call("scheduleNotification", "reminder_2h")} ELSE {})

\* The transaction; failedAt = 0 when every write succeeds, else the write that throws.
CommitTx(p, failedAt) ==
    /\ pc[p] = "tx"
    /\ failedAt \in 0..Len(TxWrites(p))
    /\ LET before == [bookings |-> bookings, stamps |-> stamps, promoUses |-> promoUses]
           after == AfterWrites(p, IF failedAt = 0 THEN Len(TxWrites(p)) ELSE failedAt - 1)
           rows == Transaction(before, after, failedAt # 0)
       IN  /\ bookings' = rows.bookings
           /\ stamps' = rows.stamps
           /\ promoUses' = rows.promoUses
    /\ Respond("commit", IF failedAt = 0 THEN "CREATED" ELSE "INTERNAL_ERROR")
    /\ pc' = [pc EXCEPT ![p] = "idle"]
    /\ req' = [req EXCEPT ![p] = NoReq]
    /\ loc' = [loc EXCEPT ![p] = NoLoc]
    /\ dispatches' = IF failedAt = 0
                     THEN dispatches (+) SetToBag(PostCommitDispatches(p, Len(bookings) + 1))
                     ELSE dispatches
    /\ UNCHANGED <<loyalty, waitlist, now, tasks, notifications>>

\* sendNotification or scheduleNotification run to its end, after the handler that
\* started it went on. sendNotification writes a 'sent' row, or a 'failed' row when
\* the message does not go out, or no row when the user or the template is missing or
\* the write of the 'failed' row throws; scheduleNotification writes a 'pending' row,
\* or no row when the write throws. The caller's catch swallows what either throws.
NotificationRun(dispatch, outcome) ==
    /\ BagIn(dispatch, dispatches)
    /\ outcome \in (IF dispatch.call = "sendNotification"
                    THEN {"sent", "failed", "none"} ELSE {"pending", "none"})
    /\ dispatches' = dispatches (-) SetToBag({dispatch})
    /\ notifications' =
         IF outcome = "none" THEN notifications
         ELSE Append(notifications,
                     [type |-> dispatch.type, userId |-> dispatch.userId,
                      bookingId |-> dispatch.bookingId, status |-> outcome])
    /\ UNCHANGED <<bookings, stamps, promoUses, loyalty, waitlist, now, tasks, pc, req, loc, reply>>

(***************************************************************************)
(* Status changes                                                          *)
(***************************************************************************)

\* validStatuses of PATCH /api/bookings/:id/status
ClientValidStatuses == {"cancelled_by_client", "pending_confirmation", "confirmed"}

\* Variant of the cancellable statuses that lets a completed reservation be cancelled.
CancellableStatusesWithCompleted ==
    {"pending_confirmation", "confirmed", "deposit_pending", "completed"}

\* cancellableStatuses of PATCH /api/bookings/:id/status
CancellableStatuses == {"pending_confirmation", "confirmed", "deposit_pending"}

\* The response code of PATCH /api/bookings/:id/status
ClientStatusCode(userId, id, status) ==
    IF status \notin ClientValidStatuses THEN "INVALID_STATUS"
    ELSE IF id \notin DOMAIN bookings THEN "NOT_FOUND"
    ELSE IF bookings[id].userId # userId THEN "FORBIDDEN"
    ELSE IF status = "cancelled_by_client" /\ bookings[id].status \notin CancellableStatuses
         THEN "INVALID_OPERATION"
    ELSE "OK"

\* PATCH /api/bookings/:id/status (the client)
ClientStatus(userId, id, status, cancelReason) ==
    /\ Respond("clientStatus", ClientStatusCode(userId, id, status))
    /\ bookings' =
         IF ClientStatusCode(userId, id, status) = "OK"
         THEN [bookings EXCEPT ![id].status = status, ![id].cancelReason = cancelReason]
         ELSE bookings
    /\ UNCHANGED <<dispatches, stamps, promoUses, loyalty, waitlist, now, tasks, notifications, pc, req, loc>>
\* Variant of the admin handler that applies the client cancellation rule to every
\* cancellation.
AdminStatusAsClient(id, status, cancelReason, adminNotes) ==
    /\ status \in Statuses
    /\ IF id \notin DOMAIN bookings
       THEN Respond("adminStatus", "NOT_FOUND") /\ UNCHANGED bookings
       ELSE IF status \in CancelledStatuses /\ bookings[id].status \notin CancellableStatuses
       THEN Respond("adminStatus", "INVALID_OPERATION") /\ UNCHANGED bookings
       ELSE /\ Respond("adminStatus", "OK")
            /\ bookings' = [bookings EXCEPT ![id].status = status]
    /\ UNCHANGED <<dispatches, stamps, promoUses, loyalty, waitlist, now, tasks, notifications, pc, req, loc>>

\* PATCH /api/admin/bookings/:id/status
AdminStatus(id, status, cancelReason, adminNotes) ==
    /\ status \in Statuses
    /\ IF id \notin DOMAIN bookings
       THEN Respond("adminStatus", "NOT_FOUND") /\ UNCHANGED bookings
       ELSE /\ Respond("adminStatus", "OK")
            /\ bookings' =
                 [bookings EXCEPT
                    ![id].status = status,
                    ![id].cancelReason = IF cancelReason # Null THEN cancelReason ELSE @,
                    ![id].adminNotes = IF adminNotes # Null THEN <<adminNotes>> ELSE @]
    /\ UNCHANGED <<dispatches, stamps, promoUses, loyalty, waitlist, now, tasks, notifications, pc, req, loc>>

\* updateBookingStatusSchema of PATCH /api/master/bookings/:id/status
MasterValidStatuses == {"completed", "no_show"}

\* PATCH /api/master/bookings/:id/status, by the user whose master profile is masterId
MasterStatus(masterId, id, status, notes) ==
    /\ IF id \notin DOMAIN bookings \/ (id \in DOMAIN bookings /\ bookings[id].masterId # masterId)
       THEN Respond("masterStatus", "NOT_FOUND") /\ UNCHANGED bookings
       ELSE IF status \notin MasterValidStatuses
       THEN Respond("masterStatus", "VALIDATION_ERROR") /\ UNCHANGED bookings
       ELSE /\ Respond("masterStatus", "OK")
            /\ bookings' =
                 [bookings EXCEPT
                    ![id].status = status,
                    ![id].adminNotes =
                        IF notes # Null
                        THEN (IF @ = None THEN <<"">> ELSE @) \o <<notes>>
                        ELSE @]
    /\ UNCHANGED <<dispatches, stamps, promoUses, loyalty, waitlist, now, tasks, notifications, pc, req, loc>>

\* The checkWaitlistAndNotify call that DELETE /api/admin/bookings/:id starts
PromotionTask(booking) ==
    [masterId |-> booking.masterId,
     serviceId |-> booking.items[1].serviceId,
     bookingDate |-> booking.bookingDate,
     startTime |-> booking.startTime,
     endTime |-> booking.endTime]

\* DELETE /api/admin/bookings/:id: the call is started and not awaited
AdminCancel(id, reason) ==
    /\ IF id \notin DOMAIN bookings
       THEN Respond("adminCancel", "NOT_FOUND") /\ UNCHANGED <<bookings, tasks>>
       ELSE /\ Respond("adminCancel", "OK")
            /\ bookings' =
                 [bookings EXCEPT
                    ![id].status = "cancelled_by_admin",
                    ![id].cancelReason = IF reason # Null THEN reason ELSE "Cancelled by admin"]
            /\ tasks' =
                 IF bookings[id].masterId # Null /\ Len(bookings[id].items) > 0
                 THEN tasks (+) SetToBag({PromotionTask(bookings[id])})
                 ELSE tasks
    /\ UNCHANGED <<dispatches, stamps, promoUses, loyalty, waitlist, now, notifications, pc, req, loc>>

(***************************************************************************)
(* Waitlist                                                                *)
(***************************************************************************)

WaitlistIds == {"w1", "w2", "w3"}

\* POST /api/waitlist; id is the fresh id of the created row
AddToWaitlist(userId, id, serviceId, masterId, preferredDate) ==
    /\ id \notin DOMAIN waitlist
    /\ IF \E w \in DOMAIN waitlist :
            /\ waitlist[w].userId = userId
            /\ waitlist[w].serviceId = serviceId
            /\ waitlist[w].masterId = masterId
            /\ waitlist[w].preferredDate = preferredDate
            /\ waitlist[w].status \in {"active", "notified"}
       THEN Respond("addToWaitlist", "DUPLICATE_ENTRY") /\ UNCHANGED <<waitlist, now>>
       ELSE /\ Respond("addToWaitlist", "CREATED")
            /\ waitlist' = waitlist @@ (id :> [userId |-> userId,
                                               serviceId |-> serviceId,
                                               masterId |-> masterId,
                                               preferredDate |-> preferredDate,
                                               status |-> "active",
                                               createdAt |-> now])
            /\ now' = now + 1
    /\ UNCHANGED <<dispatches, bookings, stamps, promoUses, loyalty, tasks, notifications, pc, req, loc>>

\* Variant of the where clause without the date condition.
WaitlistMatchesAnyDate(entry, masterId, serviceId, bookingDate) ==
    /\ entry.serviceId = serviceId
    /\ (entry.masterId = masterId \/ entry.masterId = Null)
    /\ entry.status = "active"

\* the where clause of waitlist.findFirst in checkWaitlistAndNotify
WaitlistMatches(entry, masterId, serviceId, bookingDate) ==
    /\ entry.serviceId = serviceId
    /\ (entry.masterId = masterId \/ entry.masterId = Null)
    /\ entry.status = "active"
    /\ entry.preferredDate <= bookingDate

\* Variant of the ordering: createdAt descending.
LastByCreatedAt(ids) ==
    {w \in ids : \A v \in ids : waitlist[w].createdAt >= waitlist[v].createdAt}

\* orderBy: { createdAt: 'asc' }: the rows findFirst may return
FirstByCreatedAt(ids) ==
    {w \in ids : \A v \in ids : waitlist[w].createdAt <= waitlist[v].createdAt}

\* waitlist.findFirst of checkWaitlistAndNotify: the ids it may return ({} for null)
FindFirstWaitlist(masterId, serviceId, bookingDate) ==
    FirstByCreatedAt({w \in DOMAIN waitlist :
                        WaitlistMatches(waitlist[w], masterId, serviceId, bookingDate)})

\* checkWaitlistAndNotify run to its end; sent is the outcome of sendNotification,
\* which writes a row only when the message went out (there is no bookingId)
PromotionRun(task, sent) ==
    /\ BagIn(task, tasks)
    /\ tasks' = tasks (-) SetToBag({task})
    /\ IF FindFirstWaitlist(task.masterId, task.serviceId, task.bookingDate) = {}
       THEN UNCHANGED <<waitlist, notifications>>
       ELSE \E w \in FindFirstWaitlist(task.masterId, task.serviceId, task.bookingDate) :
              /\ waitlist' = [waitlist EXCEPT ![w].status = "notified"]
              /\ notifications' =
                   IF sent
                   THEN Append(notifications,
                               [type |-> "waitlist_available", userId |-> waitlist[w].userId,
                                bookingId |-> 0, status |-> "sent"])
                   ELSE notifications
    /\ UNCHANGED <<dispatches, bookings, stamps, promoUses, loyalty, now, pc, req, loc, reply>>

(***************************************************************************)
(* POST /api/waitlist/:id/book: the booking of a notified entry, one       *)
(* action per await that reads or writes rows other handlers write         *)
(***************************************************************************)

\* waitlist.findUnique, the owner test and the status test
WlBookBegin(p, r) ==
    /\ pc[p] = "idle"
    /\ IF r.entryId \notin DOMAIN waitlist
       THEN Respond("wlBook", "NOT_FOUND") /\ UNCHANGED <<pc, req>>
       ELSE IF waitlist[r.entryId].userId # r.userId
       THEN Respond("wlBook", "FORBIDDEN") /\ UNCHANGED <<pc, req>>
       ELSE IF waitlist[r.entryId].status # "notified"
       THEN Respond("wlBook", "INVALID_STATUS") /\ UNCHANGED <<pc, req>>
       ELSE /\ pc' = [pc EXCEPT ![p] = "wl_slots"]
            /\ req' = [req EXCEPT ![p] = r]
            /\ UNCHANGED reply
    /\ UNCHANGED <<dispatches, bookings, stamps, promoUses, loyalty, waitlist, now, tasks, notifications, loc>>

\* the callback of existingBookings.some(...) in POST /api/waitlist/:id/book:
\* a comparison of the time strings
WlOverlaps(startTime, booking) ==
    \/ (StrGeq(startTime, booking.startTime) /\ StrLess(startTime, booking.endTime))
    \/ (StrGeq(booking.startTime, startTime) /\ StrLess(booking.startTime, booking.endTime))

isSlotAvailable(startTime, existing) ==
    ~(\E i \in existing : WlOverlaps(startTime, bookings[i]))

\* Variant of the refusal that also closes the entry.
WlBookSlotsClosing(p) ==
    /\ pc[p] = "wl_slots"
    /\ IF isSlotAvailable(req[p].startTime, existingBookings(req[p].masterId, req[p].bookingDate))
       THEN pc' = [pc EXCEPT ![p] = "wl_create"] /\ UNCHANGED <<req, reply, waitlist>>
       ELSE /\ Respond("wlBook", "SLOT_UNAVAILABLE")
            /\ pc' = [pc EXCEPT ![p] = "idle"]
            /\ req' = [req EXCEPT ![p] = NoReq]
            /\ waitlist' = [waitlist EXCEPT ![req[p].entryId].status = "expired"]
    /\ UNCHANGED <<dispatches, bookings, stamps, promoUses, loyalty, now, tasks, notifications, loc>>

\* booking.findMany and the availability test, up to the 409
WlBookSlots(p) ==
    /\ pc[p] = "wl_slots"
    /\ IF isSlotAvailable(req[p].startTime, existingBookings(req[p].masterId, req[p].bookingDate))
       THEN pc' = [pc EXCEPT ![p] = "wl_create"] /\ UNCHANGED <<req, reply>>
       ELSE /\ Respond("wlBook", "SLOT_UNAVAILABLE")
            /\ pc' = [pc EXCEPT ![p] = "idle"]
            /\ req' = [req EXCEPT ![p] = NoReq]
    /\ UNCHANGED <<dispatches, bookings, stamps, promoUses, loyalty, waitlist, now, tasks, notifications, loc>>

\* the for loop over serviceDurations: the rows found, with no isActive test
RECURSIVE WlItems(_, _)
WlItems(serviceDurations, sortOrder) ==
    IF serviceDurations = <<>> THEN <<>>
    ELSE LET item == Head(serviceDurations)
         IN  IF item.durationId \in DOMAIN ServiceDuration
             THEN <<[serviceId |-> item.serviceId,
                     durationId |-> item.durationId,
                     price |-> ServiceDuration[item.durationId].basePrice,
                     sortOrder |-> sortOrder]>>
                  \o WlItems(Tail(serviceDurations), sortOrder + 1)
             ELSE WlItems(Tail(serviceDurations), sortOrder)

RECURSIVE WlTotalDuration(_)
WlTotalDuration(items) ==
    IF items = <<>> THEN 0
    ELSE ServiceDuration[Head(items).durationId].durationMinutes + WlTotalDuration(Tail(items))

\* endDate.setHours(hours + floor((minutes + total) / 60), (minutes + total) % 60) and
\* the HH:MM of the Date it gives: hours past 23 roll over into the next day
WlEndTime(startTime, totalDuration) ==
    LET hours == Number(HourPart(startTime))
        minutes == Number(MinutePart(startTime))
    IN  Padded((hours + (minutes + totalDuration) \div 60) % 24, (minutes + totalDuration) % 60)

\* booking.create
WlBookCreate(p) ==
    /\ pc[p] = "wl_create"
    /\ LET items == WlItems(req[p].serviceDurations, 0)
       IN  bookings' = Append(bookings,
               [userId |-> req[p].userId,
                masterId |-> req[p].masterId,
                bookingDate |-> req[p].bookingDate,
                startTime |-> req[p].startTime,
                endTime |-> WlEndTime(req[p].startTime, WlTotalDuration(items)),
                status |-> "confirmed",
                totalPrice |-> SumPrices(items),
                discountAmount |-> 0,
                promoCodeId |-> Null,
                cancelReason |-> Null,
                adminNotes |-> None,
                items |-> items])
    /\ loc' = [loc EXCEPT ![p].bookingId = Len(bookings) + 1]
    /\ pc' = [pc EXCEPT ![p] = "wl_update"]
    /\ UNCHANGED <<dispatches, stamps, promoUses, loyalty, waitlist, now, tasks, notifications, req, reply>>

\* waitlist.update({ status: 'booked' }), the awaited sendNotification (which writes a
\* 'sent' or a 'failed' row) and the 201
WlBookUpdate(p, sent) ==
    /\ pc[p] = "wl_update"
    /\ waitlist' = [waitlist EXCEPT ![req[p].entryId].status = "booked"]
    /\ notifications' =
         Append(notifications,
                [type |-> "booking_confirmed", userId |-> req[p].userId,
                 bookingId |-> loc[p].bookingId,
                 status |-> IF sent THEN "sent" ELSE "failed"])
    /\ Respond("wlBook", "CREATED")
    /\ pc' = [pc EXCEPT ![p] = "idle"]
    /\ req' = [req EXCEPT ![p] = NoReq]
    /\ loc' = [loc EXCEPT ![p] = NoLoc]
    /\ UNCHANGED <<dispatches, bookings, stamps, promoUses, loyalty, now, tasks>>

(***************************************************************************)
(* Specifications                                                          *)
(***************************************************************************)

\* Bounds of the model: the rows and the started calls a specification lets exist.
MaxBookings == 1
MaxPairBookings == 2
MaxConcBookings == 2
MaxAtomicBookings == 2
MaxPromotionBookings == 1
MaxWlBookings == 3
MaxTasks == 1
MaxWaitlist == 2
MaxSlotBookings == 2
MaxBusyBookings == 2
MaxPromoBookings == 2
MaxErrorBookings == 2
MaxNotifyBookings == 2
MaxWlConcBookings == 3
MaxPromoConcBookings == 2
MaxLoyaltyBookings == 3
MaxEndBookings == 2

InFlight == Cardinality({p \in Procs : pc[p] # "idle"})

\* No request handler is between two of its awaits.
Quiet == InFlight = 0
RoomForBooking(maxBookings) == Len(bookings) + InFlight < maxBookings
RoomForTask == BagCardinality(tasks) < MaxTasks

Item(serviceId, durationId) == [serviceId |-> serviceId, durationId |-> durationId]

CommitRequest(userId, masterId, bookingDate, startTime, serviceDurations, promoCode) ==
    [NoReq EXCEPT !.userId = userId, !.masterId = masterId, !.bookingDate = bookingDate,
                  !.startTime = startTime, !.serviceDurations = serviceDurations,
                  !.promoCode = promoCode]

\* Requests for master m1 on date 2: 09:00 for 30 or 60 minutes, 09:30 for 30 minutes.
Requests ==
    {CommitRequest("u1", "m1", 2, td[1], <<Item("s1", td[2])>>, Null) :
        td \in {<<Padded(9, 0), "d1">>, <<Padded(9, 0), "d2">>, <<Padded(9, 30), "d1">>}}

\* The reservation life cycle: commits and status changes by the client, the admin and
\* the master, served one request at a time, and the promotion runs the admin's
\* cancellations start.
LifecycleNext(maxBookings) ==
    \/ Quiet /\ RoomForBooking(maxBookings) /\ \E r \in Requests : CommitBegin("h1", r)
    \/ CommitPromo("h1")
    \/ CommitLoyalty("h1")
    \/ CommitTx("h1", 0)
    \/ Quiet /\ \E u \in Users, id \in DOMAIN bookings,
                   st \in ClientValidStatuses \cup {"completed"}, cr \in {Null, "reason"} :
                    ClientStatus(u, id, st, cr)
    \/ Quiet /\ \E id \in DOMAIN bookings, st \in Statuses : AdminStatus(id, st, Null, Null)
    \/ Quiet /\ \E m \in Masters, id \in DOMAIN bookings, st \in MasterValidStatuses :
                    MasterStatus(m, id, st, Null)
    \/ Quiet /\ RoomForTask /\ \E id \in DOMAIN bookings : AdminCancel(id, "reason")
    \/ \E task \in BagToSet(tasks) : PromotionRun(task, TRUE)

Next == LifecycleNext(MaxBookings)

Spec == Init /\ [][Next]_vars

\* The same with room for two reservations.
PairNext == LifecycleNext(MaxPairBookings)

SpecPair == Init /\ [][PairNext]_vars

\* Concurrent commits: two handlers, their awaits interleaved.
ConcRequests ==
    {CommitRequest(u, "m1", 2, t, <<Item("s1", d)>>, Null) :
        u \in Users, t \in {Padded(9, 0), Unpadded(9, 30), Padded(10, 0)}, d \in {"d1", "d2"}}

ConcNext ==
    \E p \in Procs :
        \/ RoomForBooking(MaxConcBookings) /\ \E r \in ConcRequests : CommitBegin(p, r)
        \/ CommitPromo(p)
        \/ CommitLoyalty(p)
        \/ CommitTx(p, 0)

SpecConc == Init /\ [][ConcNext]_vars

\* Commits with a promo code, with and without a loyalty program, where a write of
\* the transaction may throw.
AtomicInit == \E settings \in {None, Some([stampsForReward |-> 2])} : InitWith(settings)

AtomicRequests ==
    {CommitRequest("u1", "m1", 2, t, <<Item("s1", d)>>, code) :
        t \in {Padded(9, 0), Padded(10, 0)}, d \in {"d1", "d2"},
        code \in {Null, "SAVE20", "FIX300"}}

AtomicNext ==
    \/ Quiet /\ RoomForBooking(MaxAtomicBookings) /\ \E r \in AtomicRequests : CommitBegin("h1", r)
    \/ CommitPromo("h1")
    \/ CommitLoyalty("h1")
    \/ \E failedAt \in 0..3 : CommitTx("h1", failedAt)

SpecAtomic == AtomicInit /\ [][AtomicNext]_vars

RoomForEntry == Cardinality(DOMAIN waitlist) < MaxWaitlist

\* Waitlist promotion: reservations of m1 on date 2 for s1 or s2, cancelled by the
\* admin, and waitlist entries that match such a cancellation or miss it by the
\* service, the master or the date.
PromotionRequests ==
    {CommitRequest("u1", "m1", 2, Padded(9, 0), <<Item(sd[1], sd[2])>>, Null) :
        sd \in {<<"s1", "d1">>, <<"s2", "d3">>}}

\* <<userId, serviceId, masterId, preferredDate>>
PromotionEntries ==
    {<<"u1", "s1", "m1", 2>>, <<"u2", "s1", "m1", 2>>, <<"u1", "s1", Null, 1>>,
     <<"u1", "s2", "m1", 2>>, <<"u1", "s1", "m2", 2>>, <<"u1", "s1", "m1", 3>>}

PromotionNext ==
    \/ Quiet /\ RoomForBooking(MaxPromotionBookings)
             /\ \E r \in PromotionRequests : CommitBegin("h1", r)
    \/ CommitPromo("h1")
    \/ CommitLoyalty("h1")
    \/ CommitTx("h1", 0)
    \/ Quiet /\ RoomForTask /\ \E id \in DOMAIN bookings : AdminCancel(id, Null)
    \/ Quiet /\ RoomForEntry /\ \E e \in PromotionEntries, id \in WaitlistIds :
                    AddToWaitlist(e[1], id, e[2], e[3], e[4])
    \/ \E task \in BagToSet(tasks), sent \in BOOLEAN : PromotionRun(task, sent)

SpecPromotion == Init /\ [][PromotionNext]_vars

\* The booking of a notified entry: reservations of m1 on date 2, cancelled by the
\* admin, one waitlist entry and its owner's booking requests.
WlBookRequest(userId, entryId, masterId, bookingDate, startTime, serviceDurations) ==
    [NoReq EXCEPT !.userId = userId, !.entryId = entryId, !.masterId = masterId,
                  !.bookingDate = bookingDate, !.startTime = startTime,
                  !.serviceDurations = serviceDurations]

WlBookTimes == {Padded(9, 0), Unpadded(9, 30), Padded(10, 0)}

WlBookNext ==
    \/ Quiet /\ RoomForBooking(MaxWlBookings)
             /\ \E t \in WlBookTimes, d \in {"d1", "d2"} :
                    CommitBegin("h1", CommitRequest("u2", "m1", 2, t, <<Item("s1", d)>>, Null))
    \/ CommitPromo("h1")
    \/ CommitLoyalty("h1")
    \/ CommitTx("h1", 0)
    \/ Quiet /\ RoomForTask /\ \E id \in DOMAIN bookings : AdminCancel(id, Null)
    \/ Quiet /\ Cardinality(DOMAIN waitlist) < 1
             /\ AddToWaitlist("u1", "w1", "s1", Null, 2)
    \/ \E task \in BagToSet(tasks) : PromotionRun(task, TRUE)
    \/ Quiet /\ RoomForBooking(MaxWlBookings)
             /\ \E t \in WlBookTimes, d \in {"d1", "d2"} :
                    WlBookBegin("h1", WlBookRequest("u1", "w1", "m1", 2, t, <<Item("s1", d)>>))
    \/ WlBookSlots("h1")
    \/ WlBookCreate("h1")
    \/ WlBookUpdate("h1", TRUE)

SpecWlBook == Init /\ [][WlBookNext]_vars

\* Slot listing and the conflict check: commits for master m1 on date 2 on the
\* half hours from 09:00 to 10:30, for 30 or 60 minutes, and on the day off, and slot
\* queries for every master, the dates with and without working hours and three
\* durations.
SlotRequests ==
    {CommitRequest("u1", "m1", 2, t, <<Item("s1", d)>>, Null) :
        t \in {Padded(9, 0), Padded(9, 30), Padded(10, 0), Padded(10, 30)}, d \in {"d1", "d2"}}
    \cup {CommitRequest("u1", "m1", 3, Padded(9, 0), <<Item("s1", "d1")>>, Null)}

SlotDurations == {30, 45, 60}

SlotsNext ==
    \/ Quiet /\ RoomForBooking(MaxSlotBookings) /\ \E r \in SlotRequests : CommitBegin("h1", r)
    \/ CommitPromo("h1")
    \/ CommitLoyalty("h1")
    \/ CommitTx("h1", 0)
    \/ Quiet /\ \E m \in Masters, d \in 1..4, duration \in SlotDurations : GetSlots(m, d, duration)

SpecSlots == Init /\ [][SlotsNext]_vars

\* Busy statuses: commits for m1 on date 2 at 09:00 or 09:30 for 30 minutes, status
\* changes by the admin to each of the nine statuses, and 30-minute slot queries.
BusyRequests ==
    {CommitRequest("u1", "m1", 2, t, <<Item("s1", "d1")>>, Null) :
        t \in {Padded(9, 0), Padded(9, 30)}}

BusyNext ==
    \/ Quiet /\ RoomForBooking(MaxBusyBookings) /\ \E r \in BusyRequests : CommitBegin("h1", r)
    \/ CommitPromo("h1")
    \/ CommitLoyalty("h1")
    \/ CommitTx("h1", 0)
    \/ Quiet /\ \E id \in DOMAIN bookings, status \in Statuses : AdminStatus(id, status, Null, Null)
    \/ Quiet /\ GetSlots("m1", 2, 30)

SpecBusy == Init /\ [][BusyNext]_vars

\* Promo codes: commits for m1 on date 2 at 09:00 or 10:00, with a total of 600 or
\* 1000, that supply each promo code of the catalogue or a code that does not exist,
\* with and without a loyalty program.
PromoRequests ==
    {CommitRequest("u1", "m1", 2, t, <<Item("s1", d)>>, code) :
        t \in {Padded(9, 0), Padded(10, 0)}, d \in {"d1", "d2"},
        code \in DOMAIN PromoCode \cup {"NOPE"}}

PromoNext ==
    \/ Quiet /\ RoomForBooking(MaxPromoBookings) /\ \E r \in PromoRequests : CommitBegin("h1", r)
    \/ CommitPromo("h1")
    \/ CommitLoyalty("h1")
    \/ CommitTx("h1", 0)

SpecPromo == AtomicInit /\ [][PromoNext]_vars

\* Loyalty: two handlers that interleave at their awaits, with and without a
\* loyalty program.
SpecStamps == AtomicInit /\ [][ConcNext]_vars

\* Validation: commits for an active master, an inactive one and one that does not
\* exist, with tiers that are active, inactive, of another service or unknown, with a
\* service the master does not offer, and at times that overlap.
ErrorItems ==
    {<<Item("s1", "d1")>>, <<Item("s1", "d2")>>, <<Item("s2", "d3")>>,
     <<Item("s2", "d4")>>, <<Item("s1", "d3")>>, <<Item("s1", "d9")>>,
     <<Item("s3", "d5")>>, <<Item("s3", "d4")>>,
     <<Item("s1", "d1"), Item("s3", "d5")>>, <<Item("s3", "d5"), Item("s2", "d4")>>}

ErrorRequests ==
    {CommitRequest("u1", masterId, 2, t, items, Null) :
        masterId \in {"m1", "m2", "m9"}, t \in {Padded(9, 0), Unpadded(9, 30)},
        items \in ErrorItems}

ErrorNext ==
    \E p \in Procs :
        \/ RoomForBooking(MaxErrorBookings) /\ \E r \in ErrorRequests : CommitBegin(p, r)
        \/ CommitPromo(p)
        \/ CommitLoyalty(p)
        \/ CommitTx(p, 0)

SpecErrors == AtomicInit /\ [][ErrorNext]_vars

\* Post-commit side effects: commits for m1 at 09:00 on the clock's date, when only
\* the 2-hour reminder is still ahead, and on the next date, with and without a
\* loyalty program, and the notification calls they start, which run at any later time with any outcome.
NotifyRequests ==
    {CommitRequest("u1", "m1", date, Padded(9, 0), <<Item("s1", "d1")>>, Null) : date \in 1..2}

NotifyNext ==
    \/ Quiet /\ RoomForBooking(MaxNotifyBookings) /\ \E r \in NotifyRequests : CommitBegin("h1", r)
    \/ CommitPromo("h1")
    \/ CommitLoyalty("h1")
    \/ CommitTx("h1", 0)
    \/ \E dispatch \in BagToSet(dispatches), outcome \in {"sent", "failed", "pending", "none"} :
          NotificationRun(dispatch, outcome)

SpecNotify == AtomicInit /\ [][NotifyNext]_vars

\* Concurrent bookings of one notified entry: a reservation of m1 on date 2 that the
\* admin cancels, one waitlist entry, and its owner's booking requests served by two
\* handlers whose awaits interleave.
WlConcNext ==
    \/ Quiet /\ RoomForBooking(MaxWlConcBookings) /\ bookings = <<>>
             /\ CommitBegin("h1", CommitRequest("u2", "m1", 2, Padded(9, 0), <<Item("s1", "d1")>>, Null))
    \/ CommitPromo("h1")
    \/ CommitLoyalty("h1")
    \/ CommitTx("h1", 0)
    \/ Quiet /\ RoomForTask /\ \E id \in DOMAIN bookings : AdminCancel(id, Null)
    \/ Quiet /\ Cardinality(DOMAIN waitlist) < 1
             /\ AddToWaitlist("u1", "w1", "s1", Null, 2)
    \/ \E task \in BagToSet(tasks) : PromotionRun(task, TRUE)
    \/ \E p \in Procs :
          \/ RoomForBooking(MaxWlConcBookings)
             /\ \E t \in {Padded(9, 0), Padded(10, 0)} :
                    WlBookBegin(p, WlBookRequest("u1", "w1", "m1", 2, t, <<Item("s1", "d1")>>))
          \/ WlBookSlots(p)
          \/ WlBookCreate(p)
          \/ WlBookUpdate(p, TRUE)

SpecWlConc == Init /\ [][WlConcNext]_vars

\* Concurrent commits with a limited promo code: a loyalty program is active, so
\* that every applying commit increments the counter, and two handlers serve commits
\* for m1 on date 2 at 09:00 or 10:00 that supply ONCE (one use) or FIX300 (two uses).
PromoConcInit == InitWith(Some([stampsForReward |-> 2]))

PromoConcRequests ==
    {CommitRequest("u1", "m1", 2, t, <<Item("s1", "d1")>>, code) :
        t \in {Padded(9, 0), Padded(10, 0)}, code \in {"ONCE", "FIX300"}}

PromoConcNext ==
    \E p \in Procs :
        \/ RoomForBooking(MaxPromoConcBookings) /\ \E r \in PromoConcRequests : CommitBegin(p, r)
        \/ CommitPromo(p)
        \/ CommitLoyalty(p)
        \/ CommitTx(p, 0)

SpecPromoConc == PromoConcInit /\ [][PromoConcNext]_vars

\* Successive commits of one client under a loyalty program of threshold 2: commits
\* of u1 for m1 on dates 2 and 4 at 09:00, 09:30 or 10:00, one after the other.
LoyaltyRequests ==
    {CommitRequest("u1", "m1", date, t, <<Item("s1", "d1")>>, Null) :
        date \in {2, 4}, t \in {Padded(9, 0), Padded(9, 30), Padded(10, 0)}}

LoyaltyNext ==
    \/ Quiet /\ RoomForBooking(MaxLoyaltyBookings) /\ \E r \in LoyaltyRequests : CommitBegin("h1", r)
    \/ CommitPromo("h1")
    \/ CommitLoyalty("h1")
    \/ CommitTx("h1", 0)

SpecLoyalty == PromoConcInit /\ [][LoyaltyNext]_vars

\* End times on both creation paths: commits and bookings of a notified entry for m1
\* on date 2, in the morning and at 23:30, for 30 or 60 minutes, and entry bookings
\* that name a tier that does not exist.
EndTimes == {Padded(9, 0), Padded(23, 30)}

EndNext ==
    \/ Quiet /\ RoomForBooking(MaxEndBookings)
             /\ \E t \in EndTimes, d \in {"d1", "d2"} :
                    CommitBegin("h1", CommitRequest("u2", "m1", 2, t, <<Item("s1", d)>>, Null))
    \/ CommitPromo("h1")
    \/ CommitLoyalty("h1")
    \/ CommitTx("h1", 0)
    \/ Quiet /\ RoomForTask /\ \E id \in DOMAIN bookings : AdminCancel(id, Null)
    \/ Quiet /\ Cardinality(DOMAIN waitlist) < 1
             /\ AddToWaitlist("u1", "w1", "s1", Null, 2)
    \/ \E task \in BagToSet(tasks) : PromotionRun(task, TRUE)
    \/ Quiet /\ RoomForBooking(MaxEndBookings)
             /\ \E t \in EndTimes, d \in {"d1", "d2", "d9"} :
                    WlBookBegin("h1", WlBookRequest("u1", "w1", "m1", 2, t, <<Item("s1", d)>>))
    \/ WlBookSlots("h1")
    \/ WlBookCreate("h1")
    \/ WlBookUpdate("h1", TRUE)

SpecEnd == Init /\ [][EndNext]_vars

(***************************************************************************)
(* Claims                                                                  *)
(***************************************************************************)

\* Two reservations of one master and date, both in a blocking status, whose
\* [start, end) intervals overlap.
DoubleBooked(i, j) ==
    /\ bookings[i].masterId = bookings[j].masterId
    /\ bookings[i].bookingDate = bookings[j].bookingDate
    /\ bookings[i].status \notin {"cancelled_by_client", "cancelled_by_admin"}
    /\ bookings[j].status \notin {"cancelled_by_client", "cancelled_by_admin"}
    /\ timeToMinutes(bookings[i].startTime) < timeToMinutes(bookings[j].endTime)
    /\ timeToMinutes(bookings[j].startTime) < timeToMinutes(bookings[i].endTime)

\* C1: after any interleaving of concurrent commits, the blocking reservations of a
\* master and date are pairwise non-overlapping.
C1_ConcurrentCommitsNeverOverlap ==
    \A i, j \in DOMAIN bookings : i < j => ~DoubleBooked(i, j)

\* C2: in every reachable state of the life cycle (commits and status changes, served
\* one at a time) no master has two overlapping reservations in a blocking status on
\* one date.
C2_NoOverlappingBlockingReservations ==
    \A m \in Masters, d \in {bookings[i].bookingDate : i \in DOMAIN bookings} :
        \A i, j \in DOMAIN bookings :
            (i # j /\ bookings[i].masterId = m /\ bookings[i].bookingDate = d)
                => ~DoubleBooked(i, j)

\* The service combinations a client asks slots for: 30, 60 and 30 + 30 minutes.
SlotCombos == {<<Item("s1", "d1")>>, <<Item("s1", "d2")>>, <<Item("s1", "d1"), Item("s2", "d3")>>}

\* The starts slot listing returns for master m on date d and a combination.
ListedStarts(m, d, combo) ==
    LET slots == ListSlots(m, d, SumDurations(combo))
    IN  {slots[k] : k \in 1..Len(slots)}

C5_ClientCancelOnlyFromCancellable ==
    [][\A u \in Users, id \in DOMAIN bookings, cr \in {Null, "reason"} :
          (ClientStatus(u, id, "cancelled_by_client", cr) /\ bookings[id].userId = u) =>
              IF bookings[id].status \in {"pending_confirmation", "confirmed", "deposit_pending"}
              THEN /\ reply'.code = "OK"
                   /\ bookings'[id].status = "cancelled_by_client"
              ELSE /\ reply'.code = "INVALID_OPERATION"
                   /\ bookings'[id].status = bookings[id].status
                   /\ bookings'[id].cancelReason = bookings[id].cancelReason
                   /\ bookings' = bookings]_vars

\* C5 witness: a cancellation by the client was refused on a completed reservation.
C5_Witness ==
    /\ reply = [op |-> "clientStatus", code |-> "INVALID_OPERATION"]
    /\ \E id \in DOMAIN bookings : bookings[id].status = "completed"

\* C6: a reservation that is cancelled_by_client, cancelled_by_admin or no_show keeps
\* that status in every step.
C6_TerminalStatusesStay ==
    [][\A id \in DOMAIN bookings :
          bookings[id].status \in {"cancelled_by_client", "cancelled_by_admin", "no_show"}
              => bookings'[id].status = bookings[id].status]_vars

\* C7: every step that moves a reservation from a blocking status into a cancelled
\* one starts exactly one waitlist promotion run, for the freed master, service,
\* date and interval.
C7_CancellationStartsPromotion ==
    [][\A id \in DOMAIN bookings :
          (/\ bookings[id].status \notin {"cancelled_by_client", "cancelled_by_admin"}
           /\ bookings'[id].status \in {"cancelled_by_client", "cancelled_by_admin"})
              => /\ BagCardinality(tasks') = BagCardinality(tasks) + 1
                 /\ BagIn([masterId |-> bookings[id].masterId,
                           serviceId |-> bookings[id].items[1].serviceId,
                           bookingDate |-> bookings[id].bookingDate,
                           startTime |-> bookings[id].startTime,
                           endTime |-> bookings[id].endTime], tasks')]_vars

\* C3: every reservation has its line items, its loyalty stamp when a loyalty program
\* is active, and, when it references a promo, that promo's redemption increment:
\* each stamp belongs to a reservation and a promo's counter is the number of
\* reservations that reference it, also after a write of a commit threw.
C3_CommitAllOrNothing ==
    /\ \A id \in DOMAIN bookings :
          /\ Len(bookings[id].items) >= 1
          /\ (loyalty # None => Cardinality({s \in stamps : s.bookingId = id}) = 1)
    /\ \A s \in stamps : s.bookingId \in DOMAIN bookings
    /\ \A promoId \in PromoIds :
          promoUses[promoId]
              = Cardinality({id \in DOMAIN bookings : bookings[id].promoCodeId = promoId})

\* The promotion run of a step: the started call the step takes out of tasks.
RunTasks == {t \in BagToSet(tasks) : CopiesIn(t, tasks') < CopiesIn(t, tasks)}

\* The entries a step changes.
ChangedEntries == {w \in DOMAIN waitlist : waitlist'[w] # waitlist[w]}

\* The active entries that fit a cancellation: same service, the master or any
\* master, wanted on or before the freed date.
Eligible(t) ==
    {w \in DOMAIN waitlist :
        /\ waitlist[w].status = "active"
        /\ waitlist[w].serviceId = t.serviceId
        /\ waitlist[w].masterId \in {t.masterId, Null}
        /\ waitlist[w].preferredDate <= t.bookingDate}

\* C8: a promotion run changes at most one entry, and when entries fit the
\* cancellation the one it sets to notified is the earliest created of them.
C8_PromotionFifoSingle ==
    [][\A t \in RunTasks :
          /\ Cardinality(ChangedEntries) <= 1
          /\ Eligible(t) # {} =>
                \E w \in Eligible(t) :
                    /\ ChangedEntries = {w}
                    /\ waitlist'[w].status = "notified"
                    /\ \A v \in Eligible(t) : waitlist[w].createdAt <= waitlist[v].createdAt]_vars

\* C8 witness: of two entries that fit the same cancellations the earlier one was
\* promoted and the later one still waits.
C8_Witness ==
    \E w, v \in DOMAIN waitlist :
        /\ waitlist[w].createdAt < waitlist[v].createdAt
        /\ waitlist[w].status = "notified" /\ waitlist[v].status = "active"
        /\ waitlist[w].serviceId = "s1" /\ waitlist[v].serviceId = "s1"
        /\ waitlist[w].masterId \in {"m1", Null} /\ waitlist[v].masterId \in {"m1", Null}
        /\ waitlist[w].preferredDate <= 2 /\ waitlist[v].preferredDate <= 2
        /\ Len(notifications) = 1

\* C9: a promotion run changes an entry only if the entry is active, has the freed
\* service, has the freed master or none, and is wanted on or before the freed date;
\* when no entry is, the run changes no entry and writes no notification.
C9_PromotionCriteria ==
    [][\A t \in RunTasks :
          /\ \A w \in ChangedEntries :
                /\ waitlist[w].status = "active"
                /\ waitlist[w].serviceId = t.serviceId
                /\ (waitlist[w].masterId = t.masterId \/ waitlist[w].masterId = Null)
                /\ waitlist[w].preferredDate <= t.bookingDate
          /\ Eligible(t) = {} => (waitlist' = waitlist /\ notifications' = notifications)]_vars

\* C9 witness: a cancellation of an s1 reservation of m1 on date 2 ran its promotion
\* while entries for another service, master or date waited: they still wait and
\* nothing was sent.
C9_Witness ==
    /\ \E id \in DOMAIN bookings :
          bookings[id].status = "cancelled_by_admin" /\ bookings[id].items[1].serviceId = "s1"
    /\ tasks = EmptyBag
    /\ notifications = <<>>
    /\ Cardinality(DOMAIN waitlist) = 2
    /\ \A w \in DOMAIN waitlist :
          /\ waitlist[w].status = "active"
          /\ waitlist[w].createdAt < now - 1 \/ waitlist[w].serviceId = "s2"
                \/ waitlist[w].masterId = "m2" \/ waitlist[w].preferredDate = 3
          /\ waitlist[w].serviceId = "s2" \/ waitlist[w].masterId = "m2"
                \/ waitlist[w].preferredDate = 3

\* C10: the booking of a notified entry is refused at its availability test exactly
\* when the requested [start, start + total duration) overlaps, by the half-open
\* test, a blocking reservation of the master and date.
C10_WaitlistBookingUsesStrictCheck ==
    [][\A p \in Procs :
          (pc[p] = "wl_slots" /\ pc'[p] # "wl_slots") =>
              LET newStart == timeToMinutes(req[p].startTime)
                  newEnd == newStart + SumDurations(req[p].serviceDurations)
                  conflict ==
                      \E i \in DOMAIN bookings :
                          /\ bookings[i].masterId = req[p].masterId
                          /\ bookings[i].bookingDate = req[p].bookingDate
                          /\ bookings[i].status \notin {"cancelled_by_client", "cancelled_by_admin"}
                          /\ newStart < timeToMinutes(bookings[i].endTime)
                          /\ timeToMinutes(bookings[i].startTime) < newEnd
              IN  (pc'[p] = "idle") <=> conflict]_vars

Busy(masterId, date) ==
    {<<timeToMinutes(bookings[i].startTime), timeToMinutes(bookings[i].endTime)>> :
        i \in existingBookings(masterId, date)}

BusyIntervals == Busy("m1", 2)

\* The starts workStart + 15k that fit before workEnd and that no busy interval,
\* widened by the buffer on both sides, overlaps.
FreeStarts(workStart, workEnd, duration, buffer, busy) ==
    {s \in {workStart + 15 * k : k \in 0..((IF workEnd > workStart THEN workEnd - workStart ELSE 0) \div 15)} :
        /\ s + duration <= workEnd
        /\ ~\E b \in busy : s < b[2] + buffer /\ s + duration > b[1] - buffer}

\* slots lists exactly the starts of the set free, in ascending order.
ListsAscending(slots, free) ==
    LET starts == [k \in 1..Len(slots) |-> timeToMinutes(slots[k])]
    IN  /\ Len(slots) = Cardinality(free)
        /\ \A k \in 1..Len(slots) : slots[k] = Padded(starts[k] \div 60, starts[k] % 60)
        /\ {starts[k] : k \in 1..Len(slots)} = free
        /\ \A k \in 1..(Len(slots) - 1) : starts[k] < starts[k + 1]

WorkingHours ==
    {<<Padded(9, 0), Padded(11, 0)>>, <<Padded(9, 0), Padded(18, 0)>>,
     <<Padded(10, 10), Padded(12, 0)>>, <<Padded(11, 0), Padded(9, 0)>>}

\* C12: after a slot query for m1 on date 2 the returned slots are, in ascending
\* order, exactly the starts workStart + 15k with start + duration <= workEnd that no
\* busy interval excludes by the buffered test, and so is the result of
\* generateTimeSlots for the queried duration, every working hours and every buffer;
\* for the hours 09:00-18:00 of date 4, 60 minutes and no busy interval the slots are
\* 09:00, 09:15, ..., 17:00, and with busy 10:00-11:00 and buffer 15 a 30-minute slot
\* is listed at 09:00 and not at 09:30.
C12_GenerateSlotsExact ==
    /\ reply.op = "slots" /\ reply.masterId = "m1" /\ reply.date = 2 =>
          /\ ListsAscending(reply.slots,
                            FreeStarts(540, 660, reply.durationMinutes, 15, BusyIntervals))
          /\ \A wh \in WorkingHours, buffer \in {0, 15, 30} :
                ListsAscending(
                    generateTimeSlots(wh[1], wh[2], reply.durationMinutes, buffer,
                                      existingBookings("m1", 2)),
                    FreeStarts(timeToMinutes(wh[1]), timeToMinutes(wh[2]),
                               reply.durationMinutes, buffer, BusyIntervals))
    /\ (/\ reply.op = "slots" /\ reply.masterId = "m1" /\ reply.date = 4
        /\ reply.durationMinutes = 60 /\ existingBookings("m1", 4) = {}) =>
          reply.slots
              = [k \in 1..33 |-> Padded((540 + 15 * (k - 1)) \div 60, (540 + 15 * (k - 1)) % 60)]
    /\ (/\ reply.op = "slots" /\ reply.masterId = "m1" /\ reply.date = 2
        /\ reply.durationMinutes = 30 /\ BusyIntervals = {<<600, 660>>}) =>
          /\ \E k \in 1..Len(reply.slots) : reply.slots[k] = Padded(9, 0)
          /\ ~\E k \in 1..Len(reply.slots) : reply.slots[k] = Padded(9, 30)

\* C12 witness: the reservation 10:00-11:00 is the only busy interval and the slots
\* of a 30-minute query have been returned.
C12_Witness ==
    /\ BusyIntervals = {<<600, 660>>}
    /\ reply.op = "slots" /\ reply.masterId = "m1" /\ reply.date = 2
    /\ reply.durationMinutes = 30
    /\ reply.slots = <<Padded(9, 0), Padded(9, 15)>>

\* C13: a slot query for a master and date with no working-hours record, or with a
\* record marked day-off, is answered with the empty list, whatever the record's
\* hours, the duration and the reservations.
C13_NoScheduleNoSlots ==
    /\ \A m \in Masters, d \in 1..4, duration \in SlotDurations :
          (<<m, d>> \notin DOMAIN MasterSchedule \/ MasterSchedule[<<m, d>>].isDayOff)
              => ListSlots(m, d, duration) = <<>>
    /\ reply.op = "slots" =>
          ((<<reply.masterId, reply.date>> \notin DOMAIN MasterSchedule
                \/ MasterSchedule[<<reply.masterId, reply.date>>].isDayOff)
              => reply.slots = <<>>)

\* C13 witness: a query for the day off of m1, whose record has hours 09:00-11:00 and
\* on which m1 has a reservation, was answered with no slots.
C13_Witness ==
    /\ reply.op = "slots" /\ reply.masterId = "m1" /\ reply.date = 3
    /\ existingBookings("m1", 3) # {}
    /\ MasterSchedule[<<"m1", 3>>].isDayOff
    /\ timeToMinutes(MasterSchedule[<<"m1", 3>>].startTime) + reply.durationMinutes
          <= timeToMinutes(MasterSchedule[<<"m1", 3>>].endTime)
    /\ reply.slots = <<>>

\* C14: a commit is answered SLOT_NOT_AVAILABLE exactly when its [newStart, newEnd)
\* and the [busyStart, busyEnd) of some blocking reservation of the master and date
\* satisfy newStart < busyEnd and busyStart < newEnd; otherwise it goes on, also when
\* it starts where a reservation ends or ends where one starts.
C14_CommitCheckIsStrictHalfOpen ==
    [][\A r \in SlotRequests :
          ((pc'["h1"] = "promo" \/ reply'.op = "commit") /\ CommitBegin("h1", r)) =>
              LET newStart == timeToMinutes(r.startTime)
                  newEnd == newStart + SumDurations(r.serviceDurations)
              IN  IF \E b \in Busy(r.masterId, r.bookingDate) : newStart < b[2] /\ b[1] < newEnd
                  THEN /\ reply' = [op |-> "commit", code |-> "SLOT_NOT_AVAILABLE"]
                       /\ pc' = pc /\ bookings' = bookings
                  ELSE /\ pc'["h1"] = "promo" /\ req'["h1"] = r]_vars

\* C14 witness: two blocking reservations of m1 on date 2 where one ends exactly
\* when the other starts.
C14_Witness ==
    \E i, j \in existingBookings("m1", 2) :
        /\ i < j
        /\ \/ timeToMinutes(bookings[i].endTime) = timeToMinutes(bookings[j].startTime)
           \/ timeToMinutes(bookings[j].endTime) = timeToMinutes(bookings[i].startTime)

\* The intervals, in minutes, of the reservations of a master and date that are in one
\* of the seven statuses other than the cancelled ones.
UncancelledIntervals(masterId, date) ==
    {<<timeToMinutes(bookings[i].startTime), timeToMinutes(bookings[i].endTime)>> :
        i \in {j \in DOMAIN bookings :
                  /\ bookings[j].masterId = masterId /\ bookings[j].bookingDate = date
                  /\ bookings[j].status \in
                        {"pending_confirmation", "confirmed", "deposit_pending", "deposit_paid",
                         "in_progress", "completed", "no_show"}}}

\* C15: the reservations that count as busy are exactly those in a status other than
\* cancelled_by_client and cancelled_by_admin: a commit is refused as a conflict
\* exactly when it overlaps one of them, so it passes over a cancelled reservation
\* and not over a completed or no_show one, and a slot query leaves out exactly the
\* starts they exclude.
C15_BusyIffNotCancelled ==
    /\ \A r \in BusyRequests :
          LET newStart == timeToMinutes(r.startTime)
              newEnd == newStart + SumDurations(r.serviceDurations)
          IN  (CommitBeginCode(r) = "SLOT_NOT_AVAILABLE")
                 <=> (\E b \in UncancelledIntervals(r.masterId, r.bookingDate) :
                         newStart < b[2] /\ b[1] < newEnd)
    /\ \A r \in BusyRequests :
          CommitBeginCode(r) \in {"OK", "SLOT_NOT_AVAILABLE"}
    /\ reply.op = "slots" =>
          ListsAscending(reply.slots,
                         FreeStarts(540, 660, reply.durationMinutes, 15,
                                    UncancelledIntervals(reply.masterId, reply.date)))

\* C15 witness: a reservation was cancelled, a commit then took its interval, that
\* reservation is now no_show, and a slot query has been answered.
C15_Witness ==
    /\ \E i, j \in DOMAIN bookings :
          /\ i < j
          /\ bookings[i].startTime = bookings[j].startTime
          /\ bookings[i].endTime = bookings[j].endTime
          /\ bookings[i].status \in {"cancelled_by_client", "cancelled_by_admin"}
          /\ bookings[j].status = "no_show"
          /\ CommitBeginCode(CommitRequest("u1", "m1", 2, bookings[i].startTime,
                                           <<Item("s1", "d1")>>, Null)) = "SLOT_NOT_AVAILABLE"
    /\ reply.op = "slots"

\* C16: a successful commit whose reservation references a promo adds exactly 1 to
\* that promo's counter in the same step and leaves the other counters alone, with
\* or without a loyalty program; a commit that applies no promo, or that fails,
\* leaves every counter as it was.
C16_PromoCounterFollowsCommits ==
    [][\A p \in Procs :
          pc[p] = "tx" /\ pc'[p] = "idle" =>
              IF Len(bookings') = Len(bookings) + 1
                    /\ bookings'[Len(bookings')].promoCodeId # Null
              THEN promoUses' =
                      [promoUses EXCEPT ![bookings'[Len(bookings')].promoCodeId] = @ + 1]
              ELSE promoUses' = promoUses]_vars

\* C17: the discount of a reservation never exceeds its pre-discount total, so its
\* final price is never negative; 20 percent of a total of 1000 is 200.
C17_DiscountNeverExceedsTotal ==
    \A id \in DOMAIN bookings :
        /\ bookings[id].discountAmount <= SumPrices(bookings[id].items)
        /\ bookings[id].totalPrice >= 0
        /\ (bookings[id].promoCodeId = "pr1" /\ SumPrices(bookings[id].items) = 1000)
              => bookings[id].discountAmount = 200

\* A supplied promo code that does not exist, is inactive, is outside its validity
\* window, has no uses left or asks for a larger order than the total.
InvalidPromo(code, totalPrice) ==
    \/ code \notin {"SAVE20", "FIX300", "FIX2000", "PCT150", "OFF", "OLD", "SOON", "ONCE", "MIN2000"}
    \/ ~PromoCode[code].isActive
    \/ now < PromoCode[code].validFrom
    \/ now > PromoCode[code].validUntil
    \/ (PromoCode[code].maxUses # None
            /\ promoUses[PromoCode[code].id] >= PromoCode[code].maxUses[1])
    \/ (PromoCode[code].minOrderAmount # None
            /\ totalPrice < PromoCode[code].minOrderAmount[1])

\* C18: a commit that supplies an invalid promo code goes on past the promo
\* validation with discount 0 and no promo, and its transaction creates the
\* reservation at the full price, with no promo reference, and changes no counter.
C18_InvalidPromoIsIgnored ==
    [][\A p \in Procs :
          /\ (/\ pc[p] = "promo" /\ pc'[p] # "promo" /\ req[p].promoCode # Null
              /\ InvalidPromo(req[p].promoCode, loc[p].totalPrice)) =>
                 /\ pc'[p] = "loyalty"
                 /\ loc'[p].promoCodeId = Null
                 /\ loc'[p].discountAmount = 0
          /\ (/\ pc[p] = "tx" /\ pc'[p] = "idle" /\ req[p].promoCode # Null
              /\ InvalidPromo(req[p].promoCode, loc[p].totalPrice)
              /\ loc[p].promoCodeId = Null) =>
                 /\ reply' = [op |-> "commit", code |-> "CREATED"]
                 /\ Len(bookings') = Len(bookings) + 1
                 /\ bookings'[Len(bookings')].promoCodeId = Null
                 /\ bookings'[Len(bookings')].discountAmount = 0
                 /\ bookings'[Len(bookings')].totalPrice = SumPrices(bookings'[Len(bookings')].items)
                 /\ promoUses' = promoUses]_vars

\* C18 witness: the promo ONCE has been used once, which is all its uses, and a second
\* request that supplies it has passed the promo validation with no promo and no
\* discount.
C18_Witness ==
    /\ promoUses["pr8"] = 1
    /\ \E id \in DOMAIN bookings : bookings[id].promoCodeId = "pr8"
    /\ pc["h1"] = "tx" /\ req["h1"].promoCode = "ONCE"
    /\ loc["h1"].promoCodeId = Null /\ loc["h1"].discountAmount = 0

\* The client's non-reward stamps.
RunningCount(userId) == Cardinality({s \in stamps : s.userId = userId /\ ~s.isReward})

\* C19: a successful commit creates exactly one stamp for the client, linked to the
\* new reservation, when a loyalty program is active, and none when it is not; the
\* stamp's number is the client's count of non-reward stamps plus one, and it is a
\* reward exactly when that number is divisible by the threshold.
C19_StampFollowsRunningCount ==
    [][\A p \in Procs :
          (pc[p] = "tx" /\ pc'[p] = "idle" /\ Len(bookings') = Len(bookings) + 1) =>
              IF loyalty = None
              THEN stamps' = stamps
              ELSE LET userId == bookings'[Len(bookings')].userId
                       number == RunningCount(userId) + 1
                   IN  /\ Cardinality(stamps' \ stamps) = 1
                       /\ stamps \subseteq stamps'
                       /\ \A s \in stamps' \ stamps :
                             /\ s.userId = userId
                             /\ s.bookingId = Len(bookings')
                             /\ s.stampNumber = number
                             /\ s.isReward <=> (number % loyalty[1].stampsForReward = 0)]_vars

\* The staff member of a request does not exist or is not active.
StaffDefect(r) == r.masterId \notin {"m1", "m2"} \/ r.masterId = "m2"

\* A requested tier is unknown, inactive or of another service than the requested one.
TierDefect(r) ==
    \E i \in DOMAIN r.serviceDurations :
        LET sd == r.serviceDurations[i]
        IN  \/ sd.durationId \notin DOMAIN ServiceDuration
            \/ ~ServiceDuration[sd.durationId].isActive
            \/ ServiceDuration[sd.durationId].serviceId # sd.serviceId

\* The staff member does not offer a requested service.
OfferDefect(r) ==
    \E i \in DOMAIN r.serviceDurations :
        <<r.masterId, r.serviceDurations[i].serviceId>> \notin DOMAIN MasterService

\* The requested interval overlaps an uncancelled reservation of the master and date.
ConflictDefect(r) ==
    LET newStart == timeToMinutes(r.startTime)
        newEnd == newStart + SumDurations(r.serviceDurations)
    IN  \E b \in UncancelledIntervals(r.masterId, r.bookingDate) :
            newStart < b[2] /\ b[1] < newEnd

\* C20: a commit for a missing or inactive staff member is answered NOT_FOUND, one
\* with an inactive or foreign tier INVALID_SERVICE, one with a service the staff
\* member does not offer MASTER_SERVICE_NOT_AVAILABLE, one that overlaps a
\* reservation SLOT_NOT_AVAILABLE; a failed commit creates no reservation, line item
\* or stamp, changes no promo counter and leaves no handler running; a commit with
\* none of these defects goes on.
C20_ValidationErrorCodes ==
    [][\A p \in Procs, r \in ErrorRequests :
          ((pc'[p] = "promo" \/ reply'.op = "commit") /\ CommitBegin(p, r)) =>
              LET failed == pc' = pc /\ reply'.op = "commit"
                  code == reply'.code
              IN  /\ StaffDefect(r) => failed /\ code = "NOT_FOUND"
                  /\ (~StaffDefect(r) /\ TierDefect(r) /\ ~OfferDefect(r)) =>
                         failed /\ code = "INVALID_SERVICE"
                  /\ (~StaffDefect(r) /\ ~TierDefect(r) /\ OfferDefect(r)) =>
                         failed /\ code = "MASTER_SERVICE_NOT_AVAILABLE"
                  /\ (~StaffDefect(r) /\ TierDefect(r) /\ OfferDefect(r)) =>
                         failed /\ code \in {"INVALID_SERVICE", "MASTER_SERVICE_NOT_AVAILABLE"}
                  /\ (~StaffDefect(r) /\ ~TierDefect(r) /\ ~OfferDefect(r)) =>
                         IF ConflictDefect(r)
                         THEN failed /\ code = "SLOT_NOT_AVAILABLE"
                         ELSE pc'[p] = "promo" /\ req'[p] = r
                  /\ failed => /\ bookings' = bookings /\ stamps' = stamps
                               /\ promoUses' = promoUses /\ req' = req /\ loc' = loc]_vars

\* C20 witness: with a loyalty program active, a reservation and its stamp exist and
\* the last commit was refused for a conflict, leaving exactly that reservation and
\* that stamp and no handler running.
C20_Witness ==
    /\ loyalty # None
    /\ Len(bookings) = 1 /\ Cardinality(stamps) = 1
    /\ reply = [op |-> "commit", code |-> "SLOT_NOT_AVAILABLE"]
    /\ Quiet

\* C21: the transaction of a commit answers 201 with the reservation created, whatever
\* becomes of the notification calls it starts; a notification call that runs, with
\* any outcome, leaves every reservation with its line items, every stamp, every
\* promo counter and the response as they were.
C21_SideEffectsNeverUndoCommit ==
    [][/\ (pc["h1"] = "tx" /\ pc'["h1"] = "idle") =>
             /\ reply' = [op |-> "commit", code |-> "CREATED"]
             /\ bookings' = Append(bookings, bookings'[Len(bookings')])
             /\ loyalty # None => \E s \in stamps' : s.bookingId = Len(bookings')
       /\ (\E d \in BagToSet(dispatches) : CopiesIn(d, dispatches') < CopiesIn(d, dispatches)) =>
             /\ bookings' = bookings
             /\ stamps' = stamps
             /\ promoUses' = promoUses
             /\ reply' = reply
             /\ pc' = pc]_vars

\* C21 witness: the booking_created message of reservation 1 did not go out and the
\* write of a reminder failed, and the reservation and its stamp are there.
C21_Witness ==
    /\ Len(bookings) >= 1
    /\ \E s \in stamps : s.bookingId = 1
    /\ \E i \in DOMAIN notifications :
          notifications[i] = [type |-> "booking_created", userId |-> "u1", bookingId |-> 1,
                              status |-> "failed"]
    /\ \A i \in DOMAIN notifications :
          notifications[i].bookingId = 1 => notifications[i].type # "reminder_2h"
    /\ \A d \in BagToSet(dispatches) : d.bookingId # 1
    /\ reply = [op |-> "commit", code |-> "CREATED"]

\* C22: for every reservation, whatever its current status, and every one of the nine
\* statuses, the admin's status request is answered OK and the reservation then holds
\* that status.
C22_AdminSetsAnyStatus ==
    [][\A id \in DOMAIN bookings, status \in Statuses :
          (reply'.op = "adminStatus" /\ AdminStatus(id, status, Null, Null)) =>
              /\ reply'.code = "OK"
              /\ bookings'[id].status = status]_vars

\* C22 witness: the admin has set cancelled_by_client on one reservation and no_show
\* on another, which has never been confirmed or in progress.
C22_Witness ==
    /\ reply = [op |-> "adminStatus", code |-> "OK"]
    /\ Len(bookings) = 2
    /\ bookings[1].status = "cancelled_by_client"
    /\ bookings[2].status = "no_show"

\* C23: a step that moves a reservation into no_show finds it confirmed or in
\* progress.
C23_NoShowOnlyFromConfirmedOrInProgress ==
    [][\A id \in DOMAIN bookings :
          (bookings[id].status # "no_show" /\ bookings'[id].status = "no_show") =>
              bookings[id].status \in {"confirmed", "in_progress"}]_vars

\* C24: no status request of the master or the admin moves a reservation whose start
\* is still ahead of the clock into completed or no_show; such a request is answered
\* with an error.
C24_FutureReservationNotClosed ==
    [][\A id \in DOMAIN bookings :
          (/\ reply'.op \in {"adminStatus", "masterStatus"}
           /\ BookingDateTime(bookings[id].bookingDate, bookings[id].startTime) > NowInstant
           /\ bookings'[id].status \in {"completed", "no_show"}
           /\ bookings'[id].status # bookings[id].status) =>
              reply'.code # "OK"]_vars

\* C25: a status request of the owning client, the admin or the master that names the
\* status the reservation already holds is answered OK and leaves the reservation as
\* it was.
C25_SameStatusIsNoOp ==
    [][\A id \in DOMAIN bookings :
          /\ \A cr \in {Null, "reason"} :
                (/\ reply'.op = "clientStatus"
                 /\ bookings[id].status \in ClientValidStatuses
                 /\ ClientStatus(bookings[id].userId, id, bookings[id].status, cr)) =>
                    reply'.code = "OK" /\ bookings' = bookings
          /\ (reply'.op = "adminStatus" /\ AdminStatus(id, bookings[id].status, Null, Null)) =>
                reply'.code = "OK" /\ bookings' = bookings
          /\ (/\ reply'.op = "masterStatus"
              /\ bookings[id].status \in MasterValidStatuses
              /\ MasterStatus(bookings[id].masterId, id, bookings[id].status, Null)) =>
                reply'.code = "OK" /\ bookings' = bookings]_vars

\* C26: when the admin's cancellation is answered OK and an active waitlist entry
\* matches the cancelled reservation, the first such entry is notified by then; a
\* promotion run whose notification fails leaves the entry notified and the
\* reservation cancelled.
C26_PromotionInsideCancellation ==
    [][\A id \in DOMAIN bookings :
          /\ (reply'.op = "adminCancel" /\ AdminCancel(id, Null)) =>
                \A w \in FindFirstWaitlist(bookings[id].masterId, bookings[id].items[1].serviceId,
                                           bookings[id].bookingDate) :
                    waitlist'[w].status = "notified"
          /\ (\E t \in BagToSet(tasks) : CopiesIn(t, tasks') < CopiesIn(t, tasks)) =>
                /\ bookings' = bookings
                /\ \A w \in DOMAIN waitlist :
                      waitlist[w].status = "notified" => waitlist'[w].status = "notified"]_vars

\* C27: a handler creates the reservation of a waitlist entry only while the entry is
\* notified and no other handler has created one for it, so that one entry yields at
\* most one reservation.
C27_OneReservationPerEntry ==
    [][\A p \in Procs :
          (pc[p] = "wl_create" /\ pc'[p] = "wl_update") =>
              /\ waitlist[req[p].entryId].status = "notified"
              /\ \A q \in Procs \ {p} :
                    ~(pc[q] = "wl_update" /\ req[q].entryId = req[p].entryId)]_vars

\* C28: for every promo code with maxUses set, the reservations that reference it and
\* its currentUses never exceed maxUses.
C28_PromoUsesWithinMax ==
    \A code \in DOMAIN PromoCode :
        PromoCode[code].maxUses # None =>
            /\ Cardinality({id \in DOMAIN bookings : bookings[id].promoCodeId = PromoCode[code].id})
                  <= PromoCode[code].maxUses[1]
            /\ promoUses[PromoCode[code].id] <= PromoCode[code].maxUses[1]

\* C29: with a loyalty program of threshold N, the n stamps of a client carry the
\* numbers 1..n, each once, and floor(n / N) of them are rewards.
C29_StampsNumberedInSequence ==
    loyalty # None =>
        \A u \in Users :
            LET mine == {s \in stamps : s.userId = u}
                n == Cardinality(mine)
            IN  /\ {s.stampNumber : s \in mine} = 1..n
                /\ Cardinality({s \in mine : s.isReward}) = n \div loyalty[1].stampsForReward

\* C30: every reservation has at least one line item, ends at its start plus the sum
\* of its line items' durations, and starts before it ends, within the same day.
C30_ReservationShape ==
    \A id \in DOMAIN bookings :
        LET start == timeToMinutes(bookings[id].startTime)
            end == timeToMinutes(bookings[id].endTime)
        IN  /\ Len(bookings[id].items) >= 1
            /\ end = start + SumDurations(bookings[id].items)
            /\ start < end
            /\ end <= MinutesPerDay

====
